---------------------------- MODULE Spec2Model ----------------------------
(***************************************************************************)
(* A model of the useGoogleSheets hook (src/hooks/use-google.sheet.tsx).   *)
(*                                                                         *)
(* The hook keeps three pieces of React state (isSubmitting, error,        *)
(* success) and exposes submitToSheet(data) and reset().  submitToSheet    *)
(* is an async function with a single suspension point, the await of       *)
(* fetch: everything before it runs in the caller's turn of the event      *)
(* loop, everything after it in the turn in which the request settles.     *)
(* One action models one such turn.  The state setters called in one turn  *)
(* are applied in program order, so the state after the turn is the one    *)
(* React commits.                                                          *)
(*                                                                         *)
(* JavaScript strings that the code inspects character by character (the   *)
(* values of a record, which are trimmed) are sequences of one-character   *)
(* strings; field names and messages, which are only concatenated and      *)
(* compared, are TLA+ strings.  Field names are not integer-like, so that  *)
(* Object.entries enumerates a record in insertion order.                  *)
(***************************************************************************)
EXTENDS Integers, Sequences, FiniteSets

VARIABLES
    isSubmitting,   \* useState(false), line 26
    error,          \* useState<string | null>(null), line 27
    success,        \* useState(false), line 28
    env,            \* process.env.NEXT_PUBLIC_GOOGLE_SCRIPT_URL
    options,        \* the options the hook was instantiated with
    pending,        \* the submitToSheet calls suspended at `await fetch`
    completed,      \* a call has returned since instantiation or the last reset
    ev              \* the handler that ran in the last turn, and its call's log

vars == <<isSubmitting, error, success, env, options, pending, completed, ev>>

---------------------------------------------------------------------------
(* Bounds *)

\* The largest number of submitToSheet calls suspended at the same time.
MaxInFlight == 2

---------------------------------------------------------------------------
(* JavaScript values *)

\* `string | null` and `string | undefined`: <<>> is the absent value and
\* <<s>> the string s.
NULL == <<>>

Some(s) == <<s>>

Undefined == [t |-> "undefined", b |-> FALSE, n |-> 0, s |-> <<>>]

Null == [t |-> "null", b |-> FALSE, n |-> 0, s |-> <<>>]

Bool(b) == [t |-> "boolean", b |-> b, n |-> 0, s |-> <<>>]

Num(n) == [t |-> "number", b |-> FALSE, n |-> n, s |-> <<>>]

Str(s) == [t |-> "string", b |-> FALSE, n |-> 0, s |-> s]

Whitespace == {" "}

Digits == <<"0", "1", "2", "3", "4", "5", "6", "7", "8", "9">>

\* ToBoolean: undefined, null, false, 0 and "" are falsy.
ToBoolean(v) ==
    CASE v.t = "undefined" -> FALSE
      [] v.t = "null"      -> FALSE
      [] v.t = "boolean"   -> v.b
      [] v.t = "number"    -> v.n # 0
      [] v.t = "string"    -> v.s # <<>>

RECURSIVE NumberToString(_)
NumberToString(n) ==
    IF n < 10 THEN <<Digits[n + 1]>>
    ELSE NumberToString(n \div 10) \o <<Digits[(n % 10) + 1]>>

\* String(v)
StringOf(v) ==
    CASE v.t = "undefined" -> <<"u", "n", "d", "e", "f", "i", "n", "e", "d">>
      [] v.t = "null"      -> <<"n", "u", "l", "l">>
      [] v.t = "boolean"   -> IF v.b THEN <<"t", "r", "u", "e">>
                              ELSE <<"f", "a", "l", "s", "e">>
      [] v.t = "number"    -> NumberToString(v.n)
      [] v.t = "string"    -> v.s

RECURSIVE TrimStart(_)
TrimStart(s) ==
    IF s # <<>> /\ Head(s) \in Whitespace THEN TrimStart(Tail(s)) ELSE s

RECURSIVE TrimEnd(_)
TrimEnd(s) ==
    IF s # <<>> /\ s[Len(s)] \in Whitespace
    THEN TrimEnd(SubSeq(s, 1, Len(s) - 1))
    ELSE s

\* String.prototype.trim
Trim(s) == TrimEnd(TrimStart(s))

\* a || b
Or(a, b) == IF ToBoolean(a) THEN a ELSE b

---------------------------------------------------------------------------
(* Records: a record is the sequence of its own properties [k, v] in       *)
(* insertion order, with distinct keys.                                    *)

HasKey(data, k) == \E i \in 1..Len(data) : data[i].k = k

\* data[field]: undefined for a property the record does not have.
Get(data, k) ==
    IF HasKey(data, k)
    THEN data[CHOOSE i \in 1..Len(data) : data[i].k = k].v
    ELSE Undefined

\* Object.entries(obj): the [key, value] pairs of the own properties, in
\* insertion order.
ObjectEntries(obj) == [i \in 1..Len(obj) |-> <<obj[i].k, obj[i].v>>]

---------------------------------------------------------------------------
(* Thrown values, URLs, options *)

\* An Error object with message m.
Err(m) == [isError |-> TRUE, message |-> m]

\* A thrown value that is not an Error object (throw "text").
NonError == [isError |-> FALSE, message |-> ""]

\* The message of the TypeError that `new URL(s)` throws for an s that is
\* not an absolute URL.
InvalidUrlMessage == "Invalid URL"

\* The strings that parse as absolute URLs.
WellFormedUrls == {"https://script.example/exec"}

\* The values of the environment variable: unset, empty, not a URL, a URL.
EnvValues ==
    {NULL, Some(""), Some("not a url")} \cup {Some(u) : u \in WellFormedUrls}

\* if (x) for a `string | null` or `string | undefined`.
Truthy(x) == x # NULL /\ x[1] # ""

\* A URL constructor that accepts every string.
NewURLLenient(s) ==
    [threw |-> FALSE, url |-> [base |-> s, searchParams |-> <<>>],
     err |-> NonError]

\* new URL(s): the URL object, with no search parameters appended yet.
NewURL(s) ==
    IF s \in WellFormedUrls
    THEN [threw |-> FALSE, url |-> [base |-> s, searchParams |-> <<>>],
          err |-> NonError]
    ELSE [threw |-> TRUE, url |-> [base |-> s, searchParams |-> <<>>],
          err |-> Err(InvalidUrlMessage)]

\* url.searchParams.append(key, value)
SearchParamsAppend(url, key, value) ==
    [url EXCEPT !.searchParams = Append(@, <<key, value>>)]

\* The records a caller submits: no field, both fields in either order,
\* a field that is 0, false, null or blank.
Records ==
    {<<>>,
     <<[k |-> "name", v |-> Str(<<"A">>)], [k |-> "age", v |-> Num(5)]>>,
     <<[k |-> "age", v |-> Num(5)], [k |-> "name", v |-> Str(<<"A">>)]>>,
     <<[k |-> "name", v |-> Str(<<"A">>)], [k |-> "age", v |-> Num(0)]>>,
     <<[k |-> "name", v |-> Str(<<" ">>)], [k |-> "age", v |-> Num(0)]>>,
     <<[k |-> "name", v |-> Null], [k |-> "age", v |-> Num(5)]>>,
     <<[k |-> "age", v |-> Bool(FALSE)],
       [k |-> "name", v |-> Str(<<" ", "A", " ">>)]>>}

\* validateRequired: the default [] and lists of required fields.
RequiredLists == {<<>>, <<"name", "age">>, <<"age", "name">>}

\* transformData: not supplied, a function that flattens the record under
\* new keys, a function that throws an Error, one that throws another value.
Transforms == {"none", "rename", "throwsError", "throwsValue"}

\* onSuccess, onError: not supplied, a callback that returns, one that throws.
Callbacks == {"none", "returns", "throws"}

\* The options of an instance.
Options ==
    [validateRequired : RequiredLists, transformData : Transforms,
     onSuccess : Callbacks, onError : Callbacks]

\* transformData(data), for a supplied transformData.
transformData(data) ==
    CASE options.transformData = "rename" ->
            [threw |-> FALSE,
             value |-> <<[k |-> "n", v |-> Get(data, "name")],
                         [k |-> "a", v |-> Get(data, "age")]>>,
             err |-> NonError]
      [] options.transformData = "throwsError" ->
            [threw |-> TRUE, value |-> <<>>, err |-> Err("transform failed")]
      [] options.transformData = "throwsValue" ->
            [threw |-> TRUE, value |-> <<>>, err |-> NonError]

\* The ways a request settles: fetch resolves, or rejects with an Error or
\* with another value.
Outcomes ==
    {[resolved |-> TRUE, err |-> NonError],
     [resolved |-> FALSE, err |-> Err("Failed to fetch")],
     [resolved |-> FALSE, err |-> NonError]}

---------------------------------------------------------------------------
(* The log of one submitToSheet call: what it did, in order (trace), the   *)
(* requests it issued, the values its catch block caught, the arguments    *)
(* its callbacks were invoked with, the state of the promise it returned,  *)
(* and whether another submitToSheet call was in progress at some time     *)
(* during it.  entered holds, for each write of the call that took error   *)
(* from null to a string or success from false to true, the value          *)
(* isSubmitting had when the write was made.  An invocation has an identity (that of the promise it       *)
(* returns), id, which tells the calls in flight apart; the identity of a  *)
(* call that has returned is free for a later call.                        *)

NewLog(id, data, overlapped) ==
    [id |-> id, data |-> data, trace |-> <<>>, requests |-> <<>>, caught |-> <<>>,
     onSuccess |-> <<>>, onError |-> <<>>, promise |-> "pending",
     overlapped |-> overlapped, entered |-> <<>>]

NoCall == [NewLog(0, <<>>, FALSE) EXCEPT !.promise = "none"]

\* A handler in progress: the React state as written so far, and the log.
State == [isSubmitting |-> isSubmitting, error |-> error, success |-> success]

\* A setter of the loading state that does nothing.
setIsSubmittingIgnored(m, v) == m

setIsSubmitting(m, v) == [m EXCEPT !.st.isSubmitting = v]

setError(m, v) ==
    [m EXCEPT !.st.error = v,
              !.log.entered = IF v # NULL /\ m.st.error = NULL
                              THEN Append(@, m.st.isSubmitting) ELSE @]

setSuccess(m, v) ==
    [m EXCEPT !.st.success = v,
              !.log.entered = IF v /\ ~m.st.success
                              THEN Append(@, m.st.isSubmitting) ELSE @]

Did(m, what) == [m EXCEPT !.log.trace = Append(@, what)]

Settled(m, how) == [m EXCEPT !.log.promise = how]

---------------------------------------------------------------------------
(* reset, lines 30-33 *)

\* A reset that also ends the loading state.
resetClearsSubmitting ==
    /\ error' = NULL
    /\ success' = FALSE
    /\ isSubmitting' = FALSE
    /\ completed' = FALSE
    /\ ev' = [op |-> "reset", call |-> NoCall]
    /\ UNCHANGED <<env, options, pending>>

reset ==
    /\ error' = NULL
    /\ success' = FALSE
    /\ completed' = FALSE
    /\ ev' = [op |-> "reset", call |-> NoCall]
    /\ UNCHANGED <<isSubmitting, env, options, pending>>

---------------------------------------------------------------------------
(* validateData, lines 35-45 *)

\* The condition of line 38 for one field.
FieldFails(data, field) ==
    \/ ~ToBoolean(Get(data, field))
    \/ Trim(StringOf(Get(data, field))) = <<>>

\* The loop of lines 37-41 from the i-th required field on.
RECURSIVE ValidateFrom(_, _)
ValidateFrom(data, i) ==
    IF i > Len(options.validateRequired) THEN NULL
    ELSE IF FieldFails(data, options.validateRequired[i])
         THEN Some(options.validateRequired[i] \o " is required")
         ELSE ValidateFrom(data, i + 1)

validateData(data) == ValidateFrom(data, 1)

---------------------------------------------------------------------------
(* submitToSheet, lines 47-98 *)

\* A start of the call that does not enter the loading state.
BeginKeepsSubmitting(m) == setSuccess(setError(m, NULL), FALSE)

\* A start of the call that leaves the error of an earlier call in place.
BeginKeepsError(m) == setSuccess(setIsSubmitting(m, TRUE), FALSE)

\* Lines 49-51.
Begin(m) == setSuccess(setError(setIsSubmitting(m, TRUE), NULL), FALSE)

\* A finally block that leaves the loading state as it is.
FinallyKeepsSubmitting(m) == m

\* The finally block, lines 93-95.
Finally(m) == setIsSubmitting(m, FALSE)

\* An error message that is the fallback string whatever was thrown.
ErrorMessageAlwaysFallback(err) == "Failed to submit data"

\* const errorMessage = ..., lines 89-90.
ErrorMessage(err) ==
    IF err.isError THEN err.message ELSE "Failed to submit data"

\* A catch block that never invokes onError.
CallOnErrorSkipped(m, err) == Settled(m, "resolved")

\* onError?.(err instanceof Error ? err : new Error(errorMessage)), line 92.
\* An onError that throws throws out of the catch block: the finally block
\* runs and the promise of the call is rejected.
CallOnError(m, err) ==
    IF options.onError = "none" THEN Settled(m, "resolved")
    ELSE LET arg == IF err.isError THEN err ELSE Err(ErrorMessage(err))
             m1 == Did([m EXCEPT !.log.onError = Append(@, arg)], "onError")
         IN  Settled(m1, IF options.onError = "throws" THEN "rejected"
                         ELSE "resolved")

\* A catch block that also clears success.
CatchClearsSuccess(m, err) ==
    LET m1 == [m EXCEPT !.log.caught = Append(@, err)]
    IN  Finally(CallOnError(
            Did(setError(setSuccess(m1, FALSE), Some(ErrorMessage(err))),
                "setError"), err))

\* The catch block followed by the finally block, lines 87-95.
Catch(m, err) ==
    LET m1 == [m EXCEPT !.log.caught = Append(@, err)]
    IN  Finally(CallOnError(
            Did(setError(m1, Some(ErrorMessage(err))), "setError"), err))

\* onSuccess?.(data), line 86: the machine after the call, and whether the
\* callback threw.
CallOnSuccess(m) ==
    IF options.onSuccess = "none" THEN m
    ELSE Did([m EXCEPT !.log.onSuccess = Append(@, m.log.data)], "onSuccess")

\* Lines 85-86 and what follows them, run when fetch has resolved.
Resolved(m) ==
    LET m1 == CallOnSuccess(Did(setSuccess(m, TRUE), "setSuccess"))
    IN  IF options.onSuccess = "throws"
        THEN Catch(m1, Err("onSuccess failed"))
        ELSE Finally(Settled(m1, "resolved"))

\* The continuation of the call after `await fetch`, lines 80-95.
AfterFetch(m, outcome) ==
    IF outcome.resolved THEN Resolved(Did(m, "fetch resolved"))
    ELSE Catch(Did(m, "fetch rejected"), outcome.err)

\* The loop of lines 76-78 from the i-th entry on.
RECURSIVE AppendEntries(_, _, _)
AppendEntries(url, entries, i) ==
    IF i > Len(entries) THEN url
    ELSE AppendEntries(
            SearchParamsAppend(url, entries[i][1],
                               StringOf(Or(entries[i][2], Str(<<>>)))),
            entries, i + 1)

\* fetch(url.toString(), ...), lines 80-83: the request is issued and the
\* call is suspended.
Fetch(m, url) ==
    Did([m EXCEPT !.log.requests = Append(@, url)], "fetch")

\* The try block up to the await, lines 70-83.
Try(m, data) ==
    LET parsed == NewURL(env[1])
        transformed == transformData(data)
    IN  IF parsed.threw THEN Catch(Did(m, "new URL threw"), parsed.err)
        ELSE IF options.transformData = "none"
        THEN Fetch(Did(m, "new URL"),
                   AppendEntries(parsed.url, ObjectEntries(data), 1))
        ELSE IF transformed.threw
        THEN Catch(Did(Did(m, "new URL"), "transformData threw"),
                   transformed.err)
        ELSE Fetch(Did(Did(m, "new URL"), "transformData"),
                   AppendEntries(parsed.url, ObjectEntries(transformed.value),
                                 1))

\* A call that checks the configuration before it validates the record.
SubmitSyncConfigFirst(m, data) ==
    LET m0 == Begin(m)
        validationError == validateData(data)
    IN  IF ~Truthy(env)
        THEN Settled(
                setIsSubmitting(
                    setError(Did(m0, "not configured"),
                        Some("Google Script URL not configured in environment variables")),
                    FALSE),
                "resolved")
        ELSE IF Truthy(validationError)
        THEN Settled(setIsSubmitting(setError(Did(Did(m0, "configured"),
                                                  "validation failed"),
                                              validationError), FALSE),
                     "resolved")
        ELSE Try(Did(Did(m0, "configured"), "validated"), data)

\* The call up to its first suspension or its return, lines 49-83.
SubmitSync(m, data) ==
    LET m0 == Begin(m)
        validationError == validateData(data)
    IN  IF Truthy(validationError)
        THEN Settled(setIsSubmitting(setError(Did(m0, "validation failed"),
                                              validationError), FALSE),
                     "resolved")
        ELSE IF ~Truthy(env)
        THEN Settled(
                setIsSubmitting(
                    setError(Did(Did(m0, "validated"), "not configured"),
                        Some("Google Script URL not configured in environment variables")),
                    FALSE),
                "resolved")
        ELSE Try(Did(Did(m0, "validated"), "configured"), data)

\* The log of the call that ran in the last turn: a call that has returned
\* has given up its identity.
Ran(log) == IF log.promise = "pending" THEN log ELSE [log EXCEPT !.id = 0]

\* Every call in progress now overlaps another one.
MarkOverlapped(calls) ==
    [i \in 1..Len(calls) |-> [calls[i] EXCEPT !.overlapped = TRUE]]

\* An identity that no call in flight has.
FreshId ==
    CHOOSE id \in 1..MaxInFlight :
        /\ \A i \in 1..Len(pending) : pending[i].id # id
        /\ \A other \in 1..(id - 1) :
              \E i \in 1..Len(pending) : pending[i].id = other

\* The calls in flight with one more: they are kept in the order of their
\* identities (the order in which they were made plays no part).
Suspend(calls, call) ==
    SelectSeq(calls, LAMBDA c : c.id < call.id) \o <<call>>
        \o SelectSeq(calls, LAMBDA c : c.id > call.id)

\* submitToSheet(data) is called: the turn of the caller.
submitToSheet(data) ==
    /\ Len(pending) < MaxInFlight
    /\ LET m == SubmitSync([st |-> State,
                            log |-> NewLog(FreshId, data, pending # <<>>)],
                           data)
       IN  /\ isSubmitting' = m.st.isSubmitting
           /\ error' = m.st.error
           /\ success' = m.st.success
           /\ pending' = IF m.log.promise = "pending"
                         THEN Suspend(MarkOverlapped(pending), m.log)
                         ELSE MarkOverlapped(pending)
           /\ completed' = (completed \/ m.log.promise # "pending")
           /\ ev' = [op |-> "submit", call |-> Ran(m.log)]
    /\ UNCHANGED <<env, options>>

\* The request of the i-th suspended call settles: the call resumes.
Resume(i, outcome) ==
    /\ i \in 1..Len(pending)
    /\ LET m == AfterFetch([st |-> State, log |-> pending[i]], outcome)
       IN  /\ isSubmitting' = m.st.isSubmitting
           /\ error' = m.st.error
           /\ success' = m.st.success
           /\ completed' = TRUE
           /\ ev' = [op |-> "resume", call |-> Ran(m.log)]
    /\ pending' = [j \in 1..(Len(pending) - 1) |->
                     IF j < i THEN pending[j] ELSE pending[j + 1]]
    /\ UNCHANGED <<env, options>>

\* The environment variable is given another value.
SetEnv(v) ==
    /\ v # env
    /\ env' = v
    /\ ev' = [op |-> "env", call |-> NoCall]
    /\ UNCHANGED <<isSubmitting, error, success, options, pending, completed>>

---------------------------------------------------------------------------

Init ==
    /\ isSubmitting = FALSE
    /\ error = NULL
    /\ success = FALSE
    /\ env \in EnvValues
    /\ options \in Options
    /\ pending = <<>>
    /\ completed = FALSE
    /\ ev = [op |-> "init", call |-> NoCall]

Next ==
    \/ \E data \in Records : submitToSheet(data)
    \/ \E i \in 1..MaxInFlight, outcome \in Outcomes : Resume(i, outcome)
    \/ reset
    \/ \E v \in EnvValues : SetEnv(v)

Spec == Init /\ [][Next]_vars

\* The request of the suspended call with identity id settles.
Settle(id) ==
    \E i \in 1..Len(pending), outcome \in Outcomes :
        pending[i].id = id /\ Resume(i, outcome)

\* The transport settles every request it is given: a suspended call is
\* eventually resumed.
Fairness == \A id \in 1..MaxInFlight : WF_vars(Settle(id))

FairSpec == Spec /\ Fairness

---------------------------------------------------------------------------
(* The vocabulary of the claims *)

\* The call that returned in the last turn, if one did.
Returned == ev.op \in {"submit", "resume"} /\ ev.call.promise # "pending"

Happened(what) == \E i \in 1..Len(ev.call.trace) : ev.call.trace[i] = what

\* A field is present when the record holds a value other than null and
\* undefined for it, and blank when the trimmed string form of its value is
\* empty.
Present(data, field) == Get(data, field).t \notin {"undefined", "null"}

Blank(data, field) == Trim(StringOf(Get(data, field))) = <<>>

MissingOrBlank(data, field) == ~Present(data, field) \/ Blank(data, field)

Required == options.validateRequired

SatisfiesRequired(data) ==
    \A i \in 1..Len(Required) : ~MissingOrBlank(data, Required[i])

\* The first required field, in declared order, that is missing or blank.
FirstMissingOrBlank(data) ==
    Required[CHOOSE i \in 1..Len(Required) :
                /\ MissingOrBlank(data, Required[i])
                /\ \A j \in 1..(i - 1) : ~MissingOrBlank(data, Required[j])]

NotConfiguredMessage ==
    "Google Script URL not configured in environment variables"

\* No endpoint is configured: the variable is unset or empty.
Unconfigured == env = NULL \/ env = Some("")

\* C1: a call whose record misses a required field, or holds a blank value
\* for one, ends with error = "<f> is required" for the first such field f
\* in the declared order, with submitting and success false, and has issued
\* no network request.
C1_FirstMissingFieldReported ==
    (ev.op = "submit" /\ ~SatisfiesRequired(ev.call.data)) =>
        /\ ev.call.promise = "resolved"
        /\ error = Some(FirstMissingOrBlank(ev.call.data) \o " is required")
        /\ isSubmitting = FALSE
        /\ success = FALSE
        /\ ev.call.requests = <<>>

\* C2: a call whose record satisfies all required fields, made while no
\* endpoint is configured, ends with the configuration-missing message in
\* error, with submitting and success false, and has issued no network
\* request.
C2_UnconfiguredReported ==
    (ev.op = "submit" /\ SatisfiesRequired(ev.call.data) /\ Unconfigured) =>
        /\ error = Some(NotConfiguredMessage)
        /\ isSubmitting = FALSE
        /\ success = FALSE
        /\ ev.call.requests = <<>>

\* C3: after a call that overlapped no other call has returned, exactly one
\* of error (non-null) and success is set; while no call has returned since
\* instantiation or the last reset, and while submitting is true, error is
\* null and success is false.
C3_ExactlyOneOutcome ==
    /\ (Returned /\ ~ev.call.overlapped) => ((error # NULL) # (success = TRUE))
    /\ (~completed \/ isSubmitting) => (error = NULL /\ success = FALSE)

\* The first value the catch block of the call caught.
Thrown == ev.call.caught[1]

\* The transform, the URL constructor or the request of the call threw.
ThrewBeforeSuccess ==
    /\ Returned
    /\ Happened("new URL threw") \/ Happened("transformData threw")
            \/ Happened("fetch rejected")

\* The state and the callbacks after a call in which Thrown was thrown.
FailedWith(err) ==
    /\ error = Some(IF err.isError THEN err.message
                    ELSE "Failed to submit data")
    /\ success = FALSE
    /\ isSubmitting = FALSE
    /\ ev.call.onSuccess = <<>>
    /\ options.onError # "none" =>
          ev.call.onError = <<IF err.isError THEN err
                              ELSE Err("Failed to submit data")>>

\* C4: a call that overlapped no other call, passed validation and the
\* configuration check and whose request resolved ends with success = true,
\* error = null and submitting = false, and has invoked onSuccess, when
\* supplied, exactly once, with the record it was given.
C4_SuccessOutcome ==
    (Returned /\ ~ev.call.overlapped /\ Happened("fetch resolved")) =>
        /\ success = TRUE
        /\ error = NULL
        /\ isSubmitting = FALSE
        /\ options.onSuccess # "none" => ev.call.onSuccess = <<ev.call.data>>

\* C5 as stated: every call in which the transform, the URL constructor or
\* the request threw ends with error = the thrown error's message (the
\* fallback string for a thrown value that is no Error), success = false and
\* submitting = false, and has invoked onError, when supplied, exactly once,
\* with the Error (an Error wrapping the fallback string).
C5_Original == ThrewBeforeSuccess => FailedWith(Thrown)

\* C5, amended: the same of every call that overlapped no other call.
C5_FailureOutcome ==
    (ThrewBeforeSuccess /\ ~ev.call.overlapped) => FailedWith(Thrown)

C5_Witness ==
    /\ ThrewBeforeSuccess
    /\ ~ev.call.overlapped
    /\ ev.op = "resume"
    /\ ~Thrown.isError
    /\ error = Some("Failed to submit data")
    /\ Len(ev.call.onError) = 1

\* C6: the promise of a submitToSheet call is never rejected.
C6_NeverRejects == ev.call.promise # "rejected"

\* C7: reset sets error to null and success to false, leaves submitting and
\* the calls in flight as they are, issues no request and invokes no
\* callback.
C7_Reset ==
    [][ev'.op = "reset" =>
          /\ error' = NULL
          /\ success' = FALSE
          /\ isSubmitting' = isSubmitting
          /\ pending' = pending
          /\ env' = env
          /\ ev'.call = NoCall]_vars

C7_Witness ==
    /\ ev.op = "reset"
    /\ Len(pending) = MaxInFlight
    /\ isSubmitting = TRUE
    /\ error = NULL
    /\ success = FALSE

\* The query parameters the claims expect for a mapping: one per key, in
\* insertion order, the value in its string form, and the empty string for
\* null and undefined only.
RECURSIVE ExpectedParams(_)
ExpectedParams(mapping) ==
    IF mapping = <<>> THEN <<>>
    ELSE <<<<Head(mapping).k,
             IF Head(mapping).v.t \in {"undefined", "null"} THEN <<>>
             ELSE StringOf(Head(mapping).v)>>>>
         \o ExpectedParams(Tail(mapping))

\* The call of the last turn issued a request.
Requested == ev.op = "submit" /\ ev.call.requests # <<>>

\* C8: without a transform, the query parameters of the requested URL are
\* the record's own key/value pairs, in insertion order, each value in its
\* string form, and only null and undefined replaced by the empty string.
C8_ParamsOfRecord ==
    (Requested /\ options.transformData = "none") =>
        ev.call.requests[1].searchParams = ExpectedParams(ev.call.data)

\* The requests of the calls in flight and of the call of the last turn.
Requests ==
    {pending[i] : i \in 1..Len(pending)}
        \cup (IF ev.call.requests # <<>> THEN {ev.call} ELSE {})

\* C9: with a transform, the query parameters of the requested URL are the
\* key/value pairs of transform(record), in the insertion order of the
\* transform's output, with no key of the record that the output lacks; and
\* two submits of the same record under the same configuration request the
\* same URL.
C9_ParamsOfTransform ==
    /\ (Requested /\ options.transformData # "none") =>
          LET out == transformData(ev.call.data).value
              params == ev.call.requests[1].searchParams
          IN  /\ params = ExpectedParams(out)
              /\ \A i \in 1..Len(params) :
                    HasKey(ev.call.data, params[i][1]) =>
                        HasKey(out, params[i][1])
    /\ \A c, d \in Requests :
          (c.data = d.data /\ c.requests[1].base = d.requests[1].base) =>
              c.requests = d.requests

\* The endpoint is malformed: set, and not an absolute URL.
Malformed == ~Unconfigured /\ env[1] \notin WellFormedUrls

\* C10 as stated: while the endpoint is unset or malformed, every call ends
\* with the configuration-missing message and issues no request.
C10_Original ==
    (ev.op = "submit" /\ (Unconfigured \/ Malformed)) =>
        /\ error = Some(NotConfiguredMessage)
        /\ ev.call.requests = <<>>

\* C10, amended: while the endpoint is unset or malformed, every call
\* returns without issuing a request, with success and submitting false and
\* an error: the message of the first required field that fails validation;
\* else the configuration-missing message when the endpoint is unset; else
\* the message of the error the URL constructor threw.
C10_NoRequestWithoutEndpoint ==
    (ev.op = "submit" /\ (Unconfigured \/ Malformed)) =>
        /\ ev.call.requests = <<>>
        /\ ev.call.promise # "pending"
        /\ success = FALSE
        /\ isSubmitting = FALSE
        /\ error =
             IF \E i \in 1..Len(Required) : FieldFails(ev.call.data, Required[i])
             THEN Some(Required[CHOOSE i \in 1..Len(Required) :
                          /\ FieldFails(ev.call.data, Required[i])
                          /\ \A j \in 1..(i - 1) :
                                ~FieldFails(ev.call.data, Required[j])]
                       \o " is required")
             ELSE IF Unconfigured THEN Some(NotConfiguredMessage)
             ELSE Some(InvalidUrlMessage)

C10_Witness ==
    /\ ev.op = "submit"
    /\ Malformed
    /\ error = Some(InvalidUrlMessage)
    /\ ev.call.requests = <<>>
    /\ ev.call.data # <<>>

\* C11: a call whose record holds, for every required field, a present
\* value with a non-empty trimmed string form (0 and false included) passes
\* validation: it goes on to the configuration check and sets no
\* "<field> is required" error.
C11_PresentNonBlankPasses ==
    (ev.op = "submit" /\ SatisfiesRequired(ev.call.data)) =>
        /\ Happened("validated")
        /\ ~Happened("validation failed")
        /\ \A i \in 1..Len(Required) :
              error # Some(Required[i] \o " is required")

\* The call of the last turn returned at the validation step, or at the
\* configuration check.
ValidationFailed == Returned /\ Happened("validation failed")

ConfigurationMissing == Returned /\ Happened("not configured")

\* What the catch block makes of a thrown value: the message, and the
\* Error handed to onError.
MessageOf(err) == IF err.isError THEN err.message ELSE "Failed to submit data"

ErrorOf(err) == IF err.isError THEN err ELSE Err("Failed to submit data")

\* C12 as stated: a call that fails validation, finds no endpoint, or in
\* which the URL constructor, the transform or the request throws, ends
\* with an error string and has invoked onError, when supplied, once.
C12_Original ==
    (ValidationFailed \/ ConfigurationMissing \/ ThrewBeforeSuccess) =>
        /\ error # NULL
        /\ options.onError # "none" => Len(ev.call.onError) = 1

\* C12, amended: a call that fails validation or finds no endpoint ends
\* with an error string and has not invoked onError; a call in which the
\* URL constructor, the transform or the request throws ends with the
\* message of the thrown value in error and has invoked onError, when
\* supplied, exactly once, with the Error.
C12_ErrorsSurface ==
    /\ (ValidationFailed \/ ConfigurationMissing) =>
          /\ error # NULL
          /\ ev.call.onError = <<>>
          /\ ev.call.promise = "resolved"
    /\ ThrewBeforeSuccess =>
          /\ error = Some(MessageOf(Thrown))
          /\ ev.call.onError =
                IF options.onError = "none" THEN <<>>
                ELSE <<ErrorOf(Thrown)>>

C12_Witness ==
    /\ ev.op = "submit"
    /\ ConfigurationMissing
    /\ options.onError = "returns"
    /\ ev.call.onError = <<>>
    /\ error = Some(NotConfiguredMessage)

\* The calls whose logs the state holds: those in flight and the one of the
\* last turn.
Calls ==
    {pending[i] : i \in 1..Len(pending)}
        \cup (IF ev.op \in {"submit", "resume"} THEN {ev.call} ELSE {})

In(log, what) == \E i \in 1..Len(log.trace) : log.trace[i] = what

\* The call did `later` only after it had done `earlier`.
After(log, later, earlier) ==
    \A i \in 1..Len(log.trace) :
        log.trace[i] = later =>
            \E j \in 1..(i - 1) : log.trace[j] = earlier

StepsOrdered(log) ==
    /\ \A t \in {"transformData", "transformData threw"} :
          After(log, t, "validated") /\ After(log, t, "configured")
    /\ After(log, "fetch", "new URL")
    /\ options.transformData # "none" => After(log, "fetch", "transformData")
    /\ In(log, "fetch") =>
          ~In(log, "new URL threw") /\ ~In(log, "transformData threw")
    /\ After(log, "fetch resolved", "fetch")
    /\ After(log, "setSuccess", "fetch resolved")
    /\ After(log, "onSuccess", "fetch resolved")

\* C13: in every call, the transform is invoked only after validation and
\* the configuration check have passed, the request is issued only after
\* the URL constructor and the transform have returned without throwing,
\* success is set and onSuccess invoked only after the request has resolved;
\* and a call whose record misses a required field while no endpoint is
\* configured reports the validation error, not the configuration error.
C13_StepsInOrder ==
    /\ \A log \in Calls : StepsOrdered(log)
    /\ (ev.op = "submit" /\ ~SatisfiesRequired(ev.call.data) /\ Unconfigured) =>
          /\ Happened("validation failed")
          /\ ~Happened("not configured")
          /\ error # Some(NotConfiguredMessage)

C13_Witness ==
    /\ ev.op = "resume"
    /\ Happened("transformData")
    /\ Happened("onSuccess")
    /\ ev.call.trace[1] = "validated"
    /\ success = TRUE

\* C14 as stated: in every execution, whenever a call takes error from null
\* to a string or success from false to true, isSubmitting is true when the
\* write is made.
C14_Original == \A i \in 1..Len(ev.call.entered) : ev.call.entered[i]

\* C14, amended: the same of every call that overlapped no other call,
\* whatever resets are made during it.
C14_TerminalFromSubmitting ==
    ~ev.call.overlapped =>
        \A i \in 1..Len(ev.call.entered) : ev.call.entered[i] = TRUE

C14_Witness ==
    /\ ev.op = "resume"
    /\ ~ev.call.overlapped
    /\ ev.call.entered = <<TRUE>>
    /\ Happened("fetch rejected")
    /\ isSubmitting = FALSE

\* The way the request of a call that was resumed settled.
OutcomeOf(log) ==
    IF In(log, "fetch resolved") THEN [resolved |-> TRUE, err |-> NonError]
    ELSE [resolved |-> FALSE, err |-> log.caught[1]]

\* An instance on which nothing has been submitted, about to run a call.
Idle(data) ==
    [st |-> [isSubmitting |-> FALSE, error |-> NULL, success |-> FALSE],
     log |-> NewLog(0, data, FALSE)]

\* The status the call leaves when it runs on its own, from the idle state,
\* on the same record, with the same configuration and the same outcome of
\* its request.
Alone(log) ==
    IF In(log, "fetch")
    THEN AfterFetch(Begin(Idle(log.data)), OutcomeOf(log)).st
    ELSE SubmitSync(Idle(log.data), log.data).st

\* The last of a set of overlapping calls has returned.
LastOfOverlapReturned ==
    ev.op = "resume" /\ ev.call.overlapped /\ pending = <<>>

\* C15 as stated: once overlapping calls have all returned, the three status
\* fields hold what the call that returned last leaves when it runs alone.
C15_Original == LastOfOverlapReturned => State = Alone(ev.call)

\* C15, amended: a resumed call that overlapped another writes the status
\* field by field: it sets isSubmitting to false; when its request resolved
\* it sets success to true and leaves error as it was (or, when its
\* onSuccess throws, sets error to the thrown message); when its request
\* was rejected it sets error to the message and leaves success as it was.
C15_LastWriterPerField ==
    [][(ev'.op = "resume" /\ ev'.call.overlapped) =>
          /\ isSubmitting' = FALSE
          /\ In(ev'.call, "fetch resolved") =>
                /\ success' = TRUE
                /\ error' = IF options.onSuccess = "throws"
                            THEN Some(MessageOf(ev'.call.caught[1]))
                            ELSE error
          /\ In(ev'.call, "fetch rejected") =>
                /\ error' = Some(MessageOf(ev'.call.caught[1]))
                /\ success' = success]_vars

C15_Witness ==
    /\ LastOfOverlapReturned
    /\ Happened("fetch rejected")
    /\ options.onSuccess = "returns"
    /\ success = TRUE
    /\ error = Some("Failed to fetch")
    /\ State # Alone(ev.call)

\* The call with identity id is suspended at `await fetch`.
InFlight(id) == \E i \in 1..Len(pending) : pending[i].id = id

\* C16: when the transport settles every request, every call that is
\* suspended eventually returns; and when no call is suspended, submitting
\* is false.
C16_EveryCallCompletes ==
    /\ \A id \in 1..MaxInFlight : InFlight(id) ~> ~InFlight(id)
    /\ [](pending = <<>> => isSubmitting = FALSE)

C16_Witness ==
    /\ ev.op = "resume"
    /\ ev.call.promise = "resolved"
    /\ pending = <<>>
    /\ isSubmitting = FALSE
    /\ ev.call.overlapped

\* C17: the status a call that overlapped no other call leaves when it
\* returns is the one it leaves when run from the idle state: it depends on
\* the record, the configuration and the outcome of the request, and not on
\* the error and success left by earlier calls and resets.
C17_NoCarryOver ==
    (Returned /\ ~ev.call.overlapped) => State = Alone(ev.call)

C17_Witness ==
    /\ ev.op = "submit"
    /\ Returned
    /\ ~ev.call.overlapped
    /\ Happened("new URL threw")
    /\ completed
    /\ State = Alone(ev.call)
    /\ error = Some(InvalidUrlMessage)

\* C18: no call invokes both onSuccess and onError, and none invokes either
\* more than once.
C18_OneCallbackAtMost ==
    \A log \in Calls : Len(log.onSuccess) + Len(log.onError) <= 1

\* C19: while no call in progress overlaps another, isSubmitting is true
\* exactly when a call is in progress (suspended at its request), whatever
\* resets are made; and no call issues more than one request.
C19_SubmittingWhileInProgress ==
    /\ (\A i \in 1..Len(pending) : ~pending[i].overlapped) =>
          (isSubmitting <=> pending # <<>>)
    /\ \A log \in Calls : Len(log.requests) <= 1

C19_Witness ==
    /\ ev.op = "reset"
    /\ Len(pending) = 1
    /\ ~pending[1].overlapped
    /\ Len(pending[1].requests) = 1
    /\ isSubmitting = TRUE

=============================================================================
